---- MODULE Spec2Model ----
(***************************************************************************)
(* The interactive agent of 3a_tools_and_state.py (3_state.py runs the     *)
(* same loop with other tools): chat_loop reads a line, runs one workflow  *)
(* turn on the Context and saves the Context to history.json.              *)
(*                                                                         *)
(* The workflow itself (AgentWorkflow of llama_index) is a collaborator    *)
(* the scripts only construct and call.  A running turn is modelled as the *)
(* environment: while it is in flight it may append messages to the        *)
(* Context and call the registered tool set_name, in any order, and it     *)
(* ends by returning a response or by raising.                             *)
(***************************************************************************)
EXTENDS Integers, Sequences, FiniteSets, TLC

\* ---------------------------------------------------------------- bounds
MaxTurns == 2      \* turns started over the whole behaviour
MaxMsgs  == 2      \* messages a Context holds
MaxTyped == 1      \* lines waiting on standard input
MaxRuns  == 2      \* times the script is started

Names == {"Ayan", "Bea"}
Roles == {"user", "assistant", "tool"}
Lines == {"msg", "exit"}

VARIABLES
  pc,         \* chat_loop: start, input, await, save_turn, save_exit, done, crashed
  ctx,        \* the Context in memory: [messages, state]
  file,       \* history.json: [exists, text]
  spc,        \* save_context: idle, open, write
  wbuf,       \* the chunks json.dump has still to write
  stdin,      \* the lines typed and not yet read by input()
  inflight,   \* the turns started by workflow.run and not yet finished
  nturns,     \* turns started so far (the id of the latest)
  nruns,      \* times the script was started
  turnStatus, \* of the latest turn: none, running, DONE, FAILED
  saveCalled, \* save_context was entered since the latest turn started
  lastGood,   \* history.json as the last completed save left it
  setName,    \* the name the latest set_name call of this run was given
  restored,   \* load_context built the Context of this run from the file
  savedName,  \* state["name"] in the snapshot the file was last opened for
  seen        \* the history as the session last held it in memory

vars == <<pc, ctx, file, spc, wbuf, stdin, inflight, nturns, nruns,
          turnStatus, saveCalled, lastGood, setName, restored, savedName,
          seen>>

\* ------------------------------------------------------------ the Context
\* Context(workflow) with initial_state = {"name": "unset"}.
NewContext == [messages |-> <<>>, state |-> [name |-> "unset"]]

\* No Context yet: chat_loop has not called load_context.
NoCtx == [messages |-> <<>>, state |-> [name |-> "none"]]

\* A message of the history; turn stands for its content (the turn it
\* belongs to).
Message(r, t) == [role |-> r, turn |-> t]

\* A set_name that answers "Name set to ..." and stores nothing.
set_name_lost(c, n) == c

\* A set_name that stores a new state holding the name alone.
set_name_replaces_state(c, n) == [c EXCEPT !.state = [name |-> n]]

\* set_name(ctx, name): state = ctx.get("state"); state["name"] = name;
\* ctx.set("state", state).
set_name(c, n) ==
  LET state  == c.state
      state2 == [state EXCEPT !["name"] = n]
  IN  [c EXCEPT !.state = state2]

\* --------------------------------------------------------- history.json
NoFile == [exists |-> FALSE, text |-> <<>>]

Tok(k, a, b) == <<k, a, b>>

RECURSIVE DumpMessages(_)
DumpMessages(ms) ==
  IF ms = <<>> THEN <<>>
  ELSE <<Tok("msg", Head(ms).role, Head(ms).turn)>> \o DumpMessages(Tail(ms))

\* json.dump(ctx_dict, f, indent=2): the text, as the chunks it is written in.
Dump(d) ==
  <<Tok("{", "", 0)>> \o DumpMessages(d.messages)
    \o <<Tok("name", d.state.name, 0), Tok("}", "", 0)>>

ParseError == [messages |-> <<>>, state |-> [name |-> "JSONDecodeError"]]

\* json.load(f): the dictionary the text denotes, or JSONDecodeError.
Parse(text) ==
  LET n == Len(text) IN
  IF /\ n >= 3
     /\ text[1][1] = "{"
     /\ text[n][1] = "}"
     /\ text[n-1][1] = "name"
     /\ \A i \in 2..(n-2) : text[i][1] = "msg"
  THEN [messages |-> [i \in 1..(n-3) |-> Message(text[i+1][2], text[i+1][3])],
        state    |-> [name |-> text[n-1][2]]]
  ELSE ParseError

\* ctx.to_dict(serializer=JsonSerializer()): what save_context writes.
Snapshot(c) == [messages |-> c.messages, state |-> c.state]

\* ------------------------------------------------------------------ Init
Init ==
  /\ pc = "start"
  /\ ctx = NoCtx
  /\ file = NoFile
  /\ spc = "idle"
  /\ wbuf = <<>>
  /\ stdin = <<>>
  /\ inflight = {}
  /\ nturns = 0
  /\ nruns = 1
  /\ turnStatus = "none"
  /\ saveCalled = FALSE
  /\ lastGood = NoFile
  /\ setName = "none"
  /\ restored = FALSE
  /\ savedName = "none"
  /\ seen = <<>>

\* ------------------------------------------------------------- chat_loop
\* ctx = load_context()
LoadContext ==
  /\ pc = "start"
  /\ IF file.exists
       THEN IF Parse(file.text) = ParseError
              THEN /\ pc' = "crashed"
                   /\ ctx' = ctx
              ELSE /\ pc' = "input"
                   /\ ctx' = Parse(file.text)
       ELSE /\ pc' = "input"
            /\ ctx' = NewContext
  /\ restored' = (file.exists /\ Parse(file.text) # ParseError)
  /\ UNCHANGED <<file, spc, wbuf, stdin, inflight, nturns, nruns,
                 turnStatus, saveCalled, lastGood,
                 setName, savedName, seen>>

\* The user types a line; input() reads it when the loop comes back to it.
Type(x) ==
  /\ pc \in {"input", "await", "save_turn"}
  /\ Len(stdin) < MaxTyped
  /\ stdin' = Append(stdin, x)
  /\ UNCHANGED <<pc, ctx, file, spc, wbuf, inflight, nturns, nruns,
                 turnStatus, saveCalled, lastGood,
                 setName, restored, savedName, seen>>

\* user_msg = input("Client: "); user_msg.lower() in ["exit", "quit"]
ReadExit ==
  /\ pc = "input"
  /\ stdin # <<>>
  /\ Head(stdin) = "exit"
  /\ stdin' = Tail(stdin)
  /\ pc' = "save_exit"
  /\ UNCHANGED <<ctx, file, spc, wbuf, inflight, nturns, nruns,
                 turnStatus, saveCalled, lastGood,
                 setName, restored, savedName, seen>>

\* A loop that starts the turn and does not wait for it.
RunWorkflowNoAwait ==
  /\ pc = "input"
  /\ stdin # <<>>
  /\ Head(stdin) = "msg"
  /\ nturns < MaxTurns
  /\ stdin' = Tail(stdin)
  /\ nturns' = nturns + 1
  /\ inflight' = inflight \cup {nturns + 1}
  /\ turnStatus' = "running"
  /\ saveCalled' = FALSE
  /\ pc' = "input"
  /\ UNCHANGED <<ctx, file, spc, wbuf, nruns, lastGood,
                 setName, restored, savedName, seen>>

\* response = await workflow.run(user_msg=user_msg, ctx=ctx)
RunWorkflow ==
  /\ pc = "input"
  /\ stdin # <<>>
  /\ Head(stdin) = "msg"
  /\ nturns < MaxTurns
  /\ stdin' = Tail(stdin)
  /\ nturns' = nturns + 1
  /\ inflight' = inflight \cup {nturns + 1}
  /\ turnStatus' = "running"
  /\ saveCalled' = FALSE
  /\ pc' = "await"
  /\ UNCHANGED <<ctx, file, spc, wbuf, nruns, lastGood,
                 setName, restored, savedName, seen>>

\* The running turn appends a message to the Context.
TurnAppend(t, r) ==
  /\ t \in inflight
  /\ Len(ctx.messages) < MaxMsgs
  /\ ctx' = [ctx EXCEPT !.messages = Append(@, Message(r, t))]
  /\ seen' = ctx'.messages
  /\ UNCHANGED <<pc, file, spc, wbuf, stdin, inflight, nturns, nruns,
                 turnStatus, saveCalled, lastGood,
                 setName, restored, savedName>>

\* The running turn calls the registered tool set_name.
TurnSetName(t, n) ==
  /\ t \in inflight
  /\ ctx' = set_name(ctx, n)
  /\ setName' = n
  /\ UNCHANGED <<pc, file, spc, wbuf, stdin, inflight, nturns, nruns,
                 turnStatus, saveCalled, lastGood, restored, savedName, seen>>

\* A loop that prints the response and goes back to input() without saving.
TurnReturnNoSave(t) ==
  /\ t \in inflight
  /\ pc = "await"
  /\ inflight' = inflight \ {t}
  /\ turnStatus' = "DONE"
  /\ pc' = "input"
  /\ UNCHANGED <<ctx, file, spc, wbuf, stdin, nturns, nruns, saveCalled,
                 lastGood,
                 setName, restored, savedName, seen>>

\* The turn ends with a response: the await returns, the loop prints it
\* and goes on to save_context(ctx).
TurnReturn(t) ==
  /\ t \in inflight
  /\ pc = "await"
  /\ inflight' = inflight \ {t}
  /\ turnStatus' = "DONE"
  /\ pc' = "save_turn"
  /\ UNCHANGED <<ctx, file, spc, wbuf, stdin, nturns, nruns, saveCalled,
                 lastGood,
                 setName, restored, savedName, seen>>

\* The turn fails: the await raises, nothing in chat_loop catches it, and
\* asyncio.run(chat_loop()) ends the script.
TurnRaise(t) ==
  /\ t \in inflight
  /\ pc = "await"
  /\ inflight' = inflight \ {t}
  /\ turnStatus' = "FAILED"
  /\ pc' = "crashed"
  /\ UNCHANGED <<ctx, file, spc, wbuf, stdin, nturns, nruns, saveCalled,
                 lastGood,
                 setName, restored, savedName, seen>>

\* ---------------------------------------------------------- save_context
\* ctx_dict = ctx.to_dict(serializer=JsonSerializer())
SaveToDict ==
  /\ pc \in {"save_turn", "save_exit"}
  /\ spc = "idle"
  /\ wbuf' = Dump(Snapshot(ctx))
  /\ spc' = "open"
  /\ saveCalled' = TRUE
  /\ UNCHANGED <<pc, ctx, file, stdin, inflight, nturns, nruns, turnStatus,
                 lastGood,
                 setName, restored, savedName, seen>>

\* open(HISTORY_FILE, "w"): creates the file or truncates it.
SaveOpen ==
  /\ spc = "open"
  /\ file' = [exists |-> TRUE, text |-> <<>>]
  /\ spc' = "write"
  /\ savedName' = ctx.state.name
  /\ UNCHANGED <<pc, ctx, wbuf, stdin, inflight, nturns, nruns, turnStatus,
                 saveCalled, lastGood,
                 setName, restored, seen>>

\* json.dump writes the next chunk.
SaveWrite ==
  /\ spc = "write"
  /\ wbuf # <<>>
  /\ file' = [file EXCEPT !.text = Append(@, Head(wbuf))]
  /\ wbuf' = Tail(wbuf)
  /\ UNCHANGED <<pc, ctx, spc, stdin, inflight, nturns, nruns, turnStatus,
                 saveCalled, lastGood,
                 setName, restored, savedName, seen>>

\* open or a write raises OSError, or the process is killed during the
\* save: the file stays as it is at that point and the script ends.
SaveFail ==
  /\ spc \in {"open", "write"}
  /\ spc' = "idle"
  /\ wbuf' = <<>>
  /\ pc' = "crashed"
  /\ UNCHANGED <<ctx, file, stdin, inflight, nturns, nruns, turnStatus,
                 saveCalled, lastGood,
                 setName, restored, savedName, seen>>

\* The with block ends after the last chunk: save_context returns; the loop
\* goes back to input() or, after exit, breaks.
SaveClose ==
  /\ spc = "write"
  /\ wbuf = <<>>
  /\ spc' = "idle"
  /\ lastGood' = file
  /\ pc' = IF pc = "save_turn" THEN "input" ELSE "done"
  /\ UNCHANGED <<ctx, file, wbuf, stdin, inflight, nturns, nruns,
                 turnStatus, saveCalled,
                 setName, restored, savedName, seen>>

\* The script is started again: python 3a_tools_and_state.py
Restart ==
  /\ pc \in {"done", "crashed"}
  /\ nruns < MaxRuns
  /\ nruns' = nruns + 1
  /\ pc' = "start"
  /\ ctx' = NoCtx
  /\ stdin' = <<>>
  /\ inflight' = {}
  /\ turnStatus' = "none"
  /\ saveCalled' = FALSE
  /\ setName' = "none"
  /\ restored' = FALSE
  /\ UNCHANGED <<file, spc, wbuf, nturns, lastGood, savedName, seen>>

Next ==
  \/ LoadContext
  \/ \E x \in Lines : Type(x)
  \/ ReadExit
  \/ RunWorkflow
  \/ \E t \in 1..MaxTurns, r \in Roles : TurnAppend(t, r)
  \/ \E t \in 1..MaxTurns, n \in Names : TurnSetName(t, n)
  \/ \E t \in 1..MaxTurns : TurnReturn(t)
  \/ \E t \in 1..MaxTurns : TurnRaise(t)
  \/ SaveToDict
  \/ SaveOpen
  \/ SaveWrite
  \/ SaveFail
  \/ SaveClose
  \/ Restart

Spec == Init /\ [][Next]_vars

\* ------------------------------------------------------ a second session
\* The Context of another session: 3_state.py run in the same directory.
\* Its message is tagged with turn 0, which no turn of this session has.
OtherContext ==
  [messages |-> <<Message("user", 0)>>, state |-> [name |-> "unset"]]

\* save_context of the other session: it writes its Context to its
\* HISTORY_FILE, which is the same "history.json".
OtherSessionSave ==
  /\ spc = "idle"
  /\ file' = [exists |-> TRUE, text |-> Dump(Snapshot(OtherContext))]
  /\ UNCHANGED <<pc, ctx, spc, wbuf, stdin, inflight, nturns, nruns,
                 turnStatus, saveCalled, lastGood, setName, restored,
                 savedName, seen>>

NextTwo ==
  \/ Next
  \/ OtherSessionSave

SpecTwo == Init /\ [][NextTwo]_vars

\* ------------------------------------------------------- set_name alone
\* The Contexts set_name is called on: any history, and a state that holds
\* a second key beside "name".
MessagesIn ==
  UNION {[1..k -> {Message(r, t) : r \in Roles, t \in 1..MaxTurns}] :
           k \in 0..MaxMsgs}

StatesIn == [name : {"unset"} \cup Names, lang : {"en", "hi"}]

InitSetName ==
  /\ pc = "tool"
  /\ ctx \in [messages : MessagesIn, state : StatesIn]
  /\ file = NoFile
  /\ spc = "idle"
  /\ wbuf = <<>>
  /\ stdin = <<>>
  /\ inflight = {}
  /\ nturns = 0
  /\ nruns = 1
  /\ turnStatus = "none"
  /\ saveCalled = FALSE
  /\ lastGood = NoFile
  /\ setName = "none"
  /\ restored = FALSE
  /\ savedName = "none"
  /\ seen = <<>>

\* The workflow calls the tool: await set_name(ctx, name=n).
CallSetName(n) ==
  /\ pc = "tool"
  /\ ctx' = set_name(ctx, n)
  /\ setName' = n
  /\ UNCHANGED <<pc, file, spc, wbuf, stdin, inflight, nturns, nruns,
                 turnStatus, saveCalled, lastGood, restored, savedName, seen>>

NextSetName == \E n \in Names : CallSetName(n)

SpecSetName == InitSetName /\ [][NextSetName]_vars

\* ----------------------------------------------------------------- claims
\* C6: after every turn that reaches DONE or FAILED the Context is
\* persisted: whenever the loop is back at input() or the script has ended
\* and the latest turn has reached DONE or FAILED, save_context was called
\* since that turn.
SavedAfterEveryTurn ==
  (turnStatus \in {"DONE", "FAILED"} /\ pc \in {"input", "done", "crashed"})
    => saveCalled

\* The part of C6 the loop does keep: after a turn that returned a response.
SavedAfterDoneTurn ==
  (turnStatus = "DONE" /\ pc \in {"input", "done", "crashed"}) => saveCalled

\* C7: a save is atomic: history.json is always either the record the last
\* completed save left (or absent, before any save) or, during a save, the
\* complete new record; never an empty or truncated one.
SaveIsAtomic ==
  \/ file = lastGood
  \/ /\ spc # "idle"
     /\ file.exists
     /\ file.text = Dump(Snapshot(ctx))

\* C9: at most one turn is in flight on the Context; while it is in flight
\* the loop waits at the await, so a further request stays queued on
\* standard input; and the messages of two turns never interleave in the
\* history.
OneTurnInFlight ==
  /\ Cardinality(inflight) <= 1
  /\ inflight # {} => pc = "await"
  /\ \A i, j \in DOMAIN ctx.messages :
       i < j => ctx.messages[i].turn <= ctx.messages[j].turn

\* The second turn runs after the first has left its message, and a third
\* request is already typed.
SecondTurnWithRequestQueued ==
  /\ inflight = {2}
  /\ stdin # <<>>
  /\ Head(stdin) = "msg"
  /\ \E i, j \in DOMAIN ctx.messages :
       ctx.messages[i].turn = 1 /\ ctx.messages[j].turn = 2

\* C12: after set_name(name=n) in a turn the state maps name to n; and in a
\* run whose Context was restored from the file, as long as set_name has
\* not been called again, the state still maps name to the value it had in
\* the snapshot that was saved.
NameRemembered ==
  /\ setName # "none" => ctx.state.name = setName
  /\ (restored /\ setName = "none") => ctx.state.name = savedName

\* A turn runs in a restored session that holds the name an earlier run
\* set, and set_name has not been called in this run.
NameReadAfterRestore ==
  /\ restored
  /\ setName = "none"
  /\ inflight # {}
  /\ ctx.state.name = "Ayan"

\* C13: a turn that ends FAILED fails only itself: the loop and its Context
\* stay, so that a later turn can be started on the same Context.
FailedTurnFailsOnlyItself ==
  turnStatus = "FAILED" => pc # "crashed"

\* C14: the history is append-only across turns, failures, saves and
\* restores: whenever the session holds a Context, the history it held
\* when the latest message was appended is a prefix of its history now.
HistoryAppendOnly ==
  pc \in {"input", "await", "save_turn", "save_exit", "done"} =>
    /\ Len(seen) <= Len(ctx.messages)
    /\ SubSeq(ctx.messages, 1, Len(seen)) = seen

\* C18: sessions are independent: a save of the other session never changes
\* the durable record of this session.
SessionsIndependent ==
  [][OtherSessionSave => file' = file]_vars

\* C19: set_name(ctx, n) leaves state["name"] = n, keeps the keys of the
\* state and the value of every other key, and does not change the
\* history.
SetNameFrame ==
  [][\A n \in Names : CallSetName(n) =>
        /\ DOMAIN ctx'.state = DOMAIN ctx.state
        /\ ctx'.state["name"] = n
        /\ \A k \in DOMAIN ctx.state \ {"name"} : ctx'.state[k] = ctx.state[k]
        /\ ctx'.messages = ctx.messages]_vars

\* set_name has overwritten the name of a state with a second key and a
\* history of two messages.
SetNameCalledOnFullContext ==
  /\ pc = "tool"
  /\ setName = "Bea"
  /\ ctx.state = [name |-> "Bea", lang |-> "hi"]
  /\ Len(ctx.messages) = 2

\* C20: whenever the loop waits for input after a turn has returned, and
\* after the loop has ended through exit or quit, history.json holds
\* exactly the text of the snapshot of the Context in memory; exit saves
\* and ends the loop with no turn running.
DurableEqualsMemory ==
  /\ (pc = "input" /\ turnStatus = "DONE") =>
       (file.exists /\ file.text = Dump(Snapshot(ctx)))
  /\ pc = "done" =>
       /\ file.exists /\ file.text = Dump(Snapshot(ctx))
       /\ saveCalled
       /\ inflight = {}

\* The loop has ended through exit after a turn that left a message and a
\* name in the Context.
ExitedAfterTurn ==
  /\ pc = "done"
  /\ turnStatus = "DONE"
  /\ ctx.messages # <<>>
  /\ ctx.state.name = "Ayan"

====
